---- MODULE Spec2Model ----
(***************************************************************************)
(* Model of emciom.py: run the commands listed in a configuration file,     *)
(* capture their standard output, build a delimited report and send it by   *)
(* e-mail through the SMTP relay on localhost.                              *)
(*                                                                          *)
(* Text is a sequence of one-character strings.  The program is a single    *)
(* sequential process; pc is its position in main() and in the two helper   *)
(* functions it calls.                                                      *)
(***************************************************************************)
EXTENDS Integers, Sequences, FiniteSets, TLC

(* ------------------------------ bounds ---------------------------------- *)
\* Longest configuration file content, in characters.
MaxFileLen == 3
\* Longest standard output of one command, in characters.
MaxOutLen == 2

(* ------------------------- program constants ---------------------------- *)
RESULT_OK == 0
RESULT_ERROR_CONFIG_FILE_NOT_PRESENT == 1
RESULT_ERROR_CONFIG_FILE_EMPTY == 2
RESULT_ERROR_CANNOT_SEND_EMAIL == 3
\* Width of the '=' and '-' delimiter lines of the report.
BannerWidth == 80

(* --------------------------- input domains ------------------------------ *)
\* Characters a configuration file is made of: two letters, blank, newline.
FileAlphabet == {"a", "b", " ", "\n"}
\* Characters a command writes to its standard output.
OutAlphabet == {"x", "\n"}
\* Exit statuses of a command that was launched.
ReturnCodes == {0, 1}

Texts(alphabet, n) == UNION {[1..k -> alphabet] : k \in 0..n}

(* ------------------------- pure string helpers -------------------------- *)
\* Characters str.strip() removes.
IsSpace(c) == c \in {" ", "\t", "\n"}

\* str.splitlines(): a line ends at each line break; text after the last
\* break is a line only when it is not empty.
RECURSIVE SplitLinesFrom(_, _, _)
SplitLinesFrom(s, i, cur) ==
    IF i > Len(s)
    THEN IF cur = <<>> THEN <<>> ELSE <<cur>>
    ELSE IF s[i] = "\n"
         THEN <<cur>> \o SplitLinesFrom(s, i + 1, <<>>)
         ELSE SplitLinesFrom(s, i + 1, Append(cur, s[i]))

SplitLines(s) == SplitLinesFrom(s, 1, <<>>)

RECURSIVE LStrip(_)
LStrip(s) ==
    IF s = <<>> THEN s
    ELSE IF IsSpace(Head(s)) THEN LStrip(Tail(s)) ELSE s

RECURSIVE RStrip(_)
RStrip(s) ==
    IF s = <<>> THEN s
    ELSE IF IsSpace(s[Len(s)]) THEN RStrip(SubSeq(s, 1, Len(s) - 1)) ELSE s

\* Variant of str.strip() that strips the left side only.
StripLeftOnly(s) == LStrip(s)

\* str.strip()
Strip(s) == RStrip(LStrip(s))

\* [cmd_line.strip() for cmd_line in cmd_lines if cmd_line.strip()]
FilterLines(lines) ==
    LET kept == SelectSeq(lines, LAMBDA l : Strip(l) # <<>>)
    IN  [i \in 1..Len(kept) |-> Strip(kept[i])]

\* '\n'.join(lines)
RECURSIVE Join(_)
Join(lines) ==
    IF lines = <<>> THEN <<>>
    ELSE IF Len(lines) = 1 THEN lines[1]
    ELSE lines[1] \o <<"\n">> \o Join(Tail(lines))

(* --------------------------- report pieces ------------------------------ *)
Banner == [i \in 1..BannerWidth |-> "="]
Separator == [i \in 1..BannerWidth |-> "-"]
CommandPrefix == <<"C", "o", "m", "m", "a", "n", "d", ":", " ">>

(* ------------------------------- state ---------------------------------- *)
VARIABLES
    pc,                  \* position of the process
    config_file_present, \* os.path.isfile(args.config_file)
    file_content,        \* text of the configuration file
    file_open,           \* config_file_obj is open
    result,              \* main's result
    cmd_lines,           \* main's cmd_lines
    cmd_output,          \* main's cmd_output (the report)
    idx,                 \* number of commands the for loop has finished
    proc_ran_okay,       \* local of run_command_with_output_capture
    stdout_bound,        \* the local stdout has been assigned
    stdout,              \* local stdout of run_command_with_output_capture
    current_cmd_output,  \* main's current_cmd_output
    alive,               \* indexes of the child processes that are running
    started,             \* commands handed to the shell so far, in order
    returncodes,         \* exit status of each terminated child, in order
    stdouts,             \* standard output of each terminated child, in order
    smtp,                \* local smtp of send_email: unbound, open, closed
    smtp_error,          \* which SMTP call raised: none, connect, send
    send_calls,          \* number of calls of send_email
    email_result,        \* local result of send_email
    msg_content,         \* content handed to send_email
    delivered,           \* the relay accepted the message
    exception,           \* exception that terminated the process, or none
    exit_code            \* exit status of the process, -1 while it runs

vars == <<pc, config_file_present, file_content, file_open, result, cmd_lines,
          cmd_output, idx, proc_ran_okay, stdout_bound, stdout,
          current_cmd_output, alive, started, returncodes, stdouts, smtp,
          smtp_error, send_calls, email_result, msg_content, delivered,
          exception, exit_code>>

cfgVars == <<config_file_present, file_content>>
loadVars == <<file_open, cmd_lines>>
runVars == <<proc_ran_okay, stdout_bound, stdout, current_cmd_output, alive,
             started, returncodes, stdouts>>
mailVars == <<smtp, smtp_error, send_calls, email_result, msg_content,
              delivered>>
endVars == <<exception, exit_code>>

Init ==
    /\ pc = "check_present"
    /\ config_file_present \in BOOLEAN
    /\ file_content \in Texts(FileAlphabet, MaxFileLen)
    /\ (~config_file_present => file_content = <<>>)
    /\ file_open = FALSE
    /\ result = RESULT_OK
    /\ cmd_lines = <<>>
    /\ cmd_output = <<>>
    /\ idx = 0
    /\ proc_ran_okay = TRUE
    /\ stdout_bound = FALSE
    /\ stdout = <<>>
    /\ current_cmd_output = <<>>
    /\ alive = {}
    /\ started = <<>>
    /\ returncodes = <<>>
    /\ stdouts = <<>>
    /\ smtp = "unbound"
    /\ smtp_error = "none"
    /\ send_calls = 0
    /\ email_result = TRUE
    /\ msg_content = <<>>
    /\ delivered = FALSE
    /\ exception = "none"
    /\ exit_code = -1

\* An exception nothing catches ends the interpreter with a traceback and
\* exit status 1.
Uncaught(name) ==
    /\ pc' = "crashed"
    /\ exception' = name
    /\ exit_code' = 1

(* ------------------------------ main ------------------------------------ *)
\* Variant that reports a missing file with the code of an empty one.
CheckConfigPresent_WrongCode ==
    /\ pc = "check_present"
    /\ result' = IF config_file_present THEN result
                 ELSE RESULT_ERROR_CONFIG_FILE_EMPTY
    /\ pc' = "open_config"
    /\ UNCHANGED <<cfgVars, loadVars, cmd_output, idx, runVars, mailVars,
                   endVars>>

\* Check if the configuration file is actually there.
CheckConfigPresent ==
    /\ pc = "check_present"
    /\ result' = IF config_file_present THEN result
                 ELSE RESULT_ERROR_CONFIG_FILE_NOT_PRESENT
    /\ pc' = "open_config"
    /\ UNCHANGED <<cfgVars, loadVars, cmd_output, idx, runVars, mailVars,
                   endVars>>

\* if result == RESULT_OK: with open(args.config_file) as config_file_obj
OpenConfig ==
    /\ pc = "open_config"
    /\ IF result = RESULT_OK
       THEN /\ file_open' = TRUE
            /\ pc' = "read_config"
       ELSE /\ file_open' = file_open
            /\ pc' = "run_commands"
    /\ UNCHANGED <<cfgVars, result, cmd_lines, cmd_output, idx, runVars,
                   mailVars, endVars>>

\* cmd_lines = config_file_obj.read().splitlines(); leaving the with block
\* closes the file.
ReadConfig ==
    /\ pc = "read_config"
    /\ cmd_lines' = SplitLines(file_content)
    /\ file_open' = FALSE
    /\ pc' = "check_lines"
    /\ UNCHANGED <<cfgVars, result, cmd_output, idx, runVars, mailVars,
                   endVars>>

\* if not cmd_lines: result = EMPTY, else strip the lines and drop the
\* empty ones.
CheckLines ==
    /\ pc = "check_lines"
    /\ IF cmd_lines = <<>>
       THEN /\ result' = RESULT_ERROR_CONFIG_FILE_EMPTY
            /\ cmd_lines' = cmd_lines
       ELSE /\ result' = result
            /\ cmd_lines' = FilterLines(cmd_lines)
    /\ pc' = "run_commands"
    /\ UNCHANGED <<cfgVars, file_open, cmd_output, idx, runVars, mailVars,
                   endVars>>

\* if result == RESULT_OK: cmd_output = list()
RunCommands ==
    /\ pc = "run_commands"
    /\ IF result = RESULT_OK
       THEN /\ cmd_output' = <<>>
            /\ pc' = "loop_head"
       ELSE /\ cmd_output' = cmd_output
            /\ pc' = "send_check"
    /\ UNCHANGED <<cfgVars, loadVars, result, idx, runVars, mailVars,
                   endVars>>

\* for cmd in cmd_lines: append the banner, the command and the separator,
\* then enter run_command_with_output_capture(cmd).
LoopHead ==
    /\ pc = "loop_head"
    /\ IF idx < Len(cmd_lines)
       THEN /\ cmd_output' = cmd_output \o
                    <<Banner, CommandPrefix \o cmd_lines[idx + 1], Separator>>
            /\ proc_ran_okay' = TRUE
            /\ stdout_bound' = FALSE
            /\ stdout' = <<>>
            /\ pc' = "popen"
       ELSE /\ UNCHANGED <<cmd_output, proc_ran_okay, stdout_bound, stdout>>
            /\ pc' = "send_check"
    /\ UNCHANGED <<cfgVars, loadVars, result, idx, current_cmd_output, alive,
                   started, returncodes, stdouts, mailVars, endVars>>

(* ------------------- run_command_with_output_capture -------------------- *)
\* proc = subprocess.Popen(command, shell=True, ...); a failure to launch is
\* caught by "except Exception", which only clears proc_ran_okay.
Popen ==
    /\ pc = "popen"
    /\ \E launched \in BOOLEAN :
          IF launched
          THEN /\ alive' = alive \cup {idx + 1}
               /\ started' = Append(started, cmd_lines[idx + 1])
               /\ proc_ran_okay' = proc_ran_okay
               /\ pc' = "communicate"
          ELSE /\ proc_ran_okay' = FALSE
               /\ UNCHANGED <<alive, started>>
               /\ pc' = "decode"
    /\ UNCHANGED <<cfgVars, loadVars, result, cmd_output, idx, stdout_bound,
                   stdout, current_cmd_output, returncodes, stdouts, mailVars,
                   endVars>>

\* Variant that reads the output without waiting for the child to end.
Communicate_NoWait ==
    /\ pc = "communicate"
    /\ \E out \in Texts(OutAlphabet, MaxOutLen), rc \in ReturnCodes :
          /\ stdout' = out
          /\ stdout_bound' = TRUE
          /\ returncodes' = Append(returncodes, rc)
          /\ stdouts' = Append(stdouts, out)
    /\ alive' = alive
    /\ pc' = "decode"
    /\ UNCHANGED <<cfgVars, loadVars, result, cmd_output, idx, proc_ran_okay,
                   current_cmd_output, started, mailVars, endVars>>

\* Variant that throws the output of a failed command away.
Communicate_DropOnFailure ==
    /\ pc = "communicate"
    /\ \E out \in Texts(OutAlphabet, MaxOutLen), rc \in ReturnCodes :
          /\ stdout' = IF rc = 0 THEN out ELSE <<>>
          /\ stdout_bound' = TRUE
          /\ returncodes' = Append(returncodes, rc)
          /\ stdouts' = Append(stdouts, out)
    /\ alive' = alive \ {idx + 1}
    /\ pc' = "decode"
    /\ UNCHANGED <<cfgVars, loadVars, result, cmd_output, idx, proc_ran_okay,
                   current_cmd_output, started, mailVars, endVars>>

\* stdout, stderr = proc.communicate(); proc.wait(): blocks until the child
\* has ended; its output and exit status are whatever the command produced.
\* The exit status and stderr are not looked at.
Communicate ==
    /\ pc = "communicate"
    /\ \E out \in Texts(OutAlphabet, MaxOutLen), rc \in ReturnCodes :
          /\ stdout' = out
          /\ stdout_bound' = TRUE
          /\ returncodes' = Append(returncodes, rc)
          /\ stdouts' = Append(stdouts, out)
    /\ alive' = alive \ {idx + 1}
    /\ pc' = "decode"
    /\ UNCHANGED <<cfgVars, loadVars, result, cmd_output, idx, proc_ran_okay,
                   current_cmd_output, started, mailVars, endVars>>

\* result = stdout.decode('utf-8').splitlines(); return result.  Reading
\* stdout when the try block never assigned it raises UnboundLocalError.
DecodeOutput ==
    /\ pc = "decode"
    /\ IF stdout_bound
       THEN /\ current_cmd_output' = SplitLines(stdout)
            /\ pc' = "append_output"
            /\ UNCHANGED endVars
       ELSE /\ current_cmd_output' = current_cmd_output
            /\ Uncaught("UnboundLocalError")
    /\ UNCHANGED <<cfgVars, loadVars, result, cmd_output, idx, proc_ran_okay,
                   stdout_bound, stdout, alive, started, returncodes, stdouts,
                   mailVars>>

\* Variant that leaves out the empty line that ends a section.
AppendOutput_NoBlankLine ==
    /\ pc = "append_output"
    /\ cmd_output' = cmd_output \o current_cmd_output \o <<Banner>>
    /\ idx' = idx + 1
    /\ pc' = "loop_head"
    /\ UNCHANGED <<cfgVars, loadVars, result, runVars, mailVars, endVars>>

\* Append the output lines of the command, the closing banner and an empty
\* line; go on with the next command.
AppendOutput ==
    /\ pc = "append_output"
    /\ cmd_output' = cmd_output \o current_cmd_output \o <<Banner, <<>>>>
    /\ idx' = idx + 1
    /\ pc' = "loop_head"
    /\ UNCHANGED <<cfgVars, loadVars, result, runVars, mailVars, endVars>>

(* ------------------------------ send_email ------------------------------ *)
\* if result == RESULT_OK: if cmd_output: send_email(..., '\n'.join(cmd_output))
\* send_email starts with result = True and builds the message.
SendCheck ==
    /\ pc = "send_check"
    /\ IF result = RESULT_OK /\ cmd_output # <<>>
       THEN /\ msg_content' = Join(cmd_output)
            /\ send_calls' = send_calls + 1
            /\ email_result' = TRUE
            /\ pc' = "smtp_connect"
       ELSE /\ UNCHANGED <<msg_content, send_calls, email_result>>
            /\ pc' = "exit"
    /\ UNCHANGED <<cfgVars, loadVars, result, cmd_output, idx, runVars, smtp,
                   smtp_error, delivered, endVars>>

\* The handler "except email.SMTPException": the package email has no
\* attribute SMTPException, so matching any exception against the clause
\* raises AttributeError, which leaves send_email and main.
ExceptSmtpException == Uncaught("AttributeError")

\* smtp = smtplib.SMTP('localhost')
SmtpConnect ==
    /\ pc = "smtp_connect"
    /\ \E connected \in BOOLEAN :
          IF connected
          THEN /\ smtp' = "open"
               /\ smtp_error' = smtp_error
               /\ pc' = "sendmail"
               /\ UNCHANGED endVars
          ELSE /\ smtp' = smtp
               /\ smtp_error' = "connect"
               /\ ExceptSmtpException
    /\ UNCHANGED <<cfgVars, loadVars, result, cmd_output, idx, runVars,
                   send_calls, email_result, msg_content, delivered>>

\* smtp.sendmail(sender, [recipient], msg.as_string())
SendMail ==
    /\ pc = "sendmail"
    /\ \E accepted \in BOOLEAN :
          IF accepted
          THEN /\ delivered' = TRUE
               /\ smtp_error' = smtp_error
               /\ pc' = "smtp_close"
               /\ UNCHANGED endVars
          ELSE /\ delivered' = delivered
               /\ smtp_error' = "send"
               /\ ExceptSmtpException
    /\ UNCHANGED <<cfgVars, loadVars, result, cmd_output, idx, runVars, smtp,
                   send_calls, email_result, msg_content>>

\* smtp.close(); return result; back in main: if not send_email(...):
\* result = RESULT_ERROR_CANNOT_SEND_EMAIL
SmtpClose ==
    /\ pc = "smtp_close"
    /\ IF smtp = "unbound"
       THEN /\ UNCHANGED <<smtp, result>>
            /\ Uncaught("UnboundLocalError")
       ELSE /\ smtp' = "closed"
            /\ result' = IF email_result THEN result
                         ELSE RESULT_ERROR_CANNOT_SEND_EMAIL
            /\ pc' = "exit"
            /\ UNCHANGED endVars
    /\ UNCHANGED <<cfgVars, loadVars, cmd_output, idx, runVars, smtp_error,
                   send_calls, email_result, msg_content, delivered>>

\* return result; exit(main())
Exit ==
    /\ pc = "exit"
    /\ exit_code' = result
    /\ pc' = "done"
    /\ UNCHANGED <<cfgVars, loadVars, result, cmd_output, idx, runVars,
                   mailVars, exception>>

Next ==
    \/ CheckConfigPresent
    \/ OpenConfig
    \/ ReadConfig
    \/ CheckLines
    \/ RunCommands
    \/ LoopHead
    \/ Popen
    \/ Communicate
    \/ DecodeOutput
    \/ AppendOutput
    \/ SendCheck
    \/ SmtpConnect
    \/ SendMail
    \/ SmtpClose
    \/ Exit

Spec == Init /\ [][Next]_vars

(* ------------------------- terms of the claims -------------------------- *)
Terminated == pc \in {"done", "crashed"}

\* The for loop over the commands has run to its end.
ReportBuilt ==
    \/ pc \in {"send_check", "smtp_connect", "sendmail", "smtp_close",
               "exit", "done"}
    \/ pc = "crashed" /\ send_calls > 0

\* The configuration loader (presence check, read, filter) has finished.
LoaderDone == pc \notin {"check_present", "open_config", "read_config",
                         "check_lines"}

AllBlank(s) == \A i \in 1..Len(s) : IsSpace(s[i])

SetMin(S) == CHOOSE x \in S : \A y \in S : x <= y
SetMax(S) == CHOOSE x \in S : \A y \in S : y <= x

\* The lines of a text, described by positions: a line lies between two
\* neighbouring breaks, where the breaks are the newlines and the two ends.
Breaks(s) == {0} \cup {i \in 1..Len(s) : s[i] = "\n"} \cup {Len(s) + 1}
NextBreak(s, b) == SetMin({e \in Breaks(s) : e > b})
NonBlankAt(s, b) == {j \in (b + 1)..(NextBreak(s, b) - 1) : ~IsSpace(s[j])}
LineStarts(s) == {b \in Breaks(s) \ {Len(s) + 1} : NonBlankAt(s, b) # {}}
TrimmedAt(s, b) == SubSeq(s, SetMin(NonBlankAt(s, b)), SetMax(NonBlankAt(s, b)))

RECURSIVE TrimmedFrom(_, _)
TrimmedFrom(s, starts) ==
    IF starts = {} THEN <<>>
    ELSE LET b == SetMin(starts)
         IN  <<TrimmedAt(s, b)>> \o TrimmedFrom(s, starts \ {b})

\* The trimmed non-blank lines of a text, in the order of the text.
TrimmedNonBlankLines(s) == TrimmedFrom(s, LineStarts(s))

\* One section of the report.
Section(cmd, out) ==
    <<Banner, CommandPrefix \o cmd, Separator>> \o out \o <<Banner, <<>>>>

\* The sections of the first n commands, one after the other.
RECURSIVE ReportOf(_, _, _)
ReportOf(cmds, outs, n) ==
    IF n = 0 THEN <<>>
    ELSE ReportOf(cmds, outs, n - 1) \o Section(cmds[n], SplitLines(outs[n]))

\* Number of output lines of the first n commands.
RECURSIVE OutputLines(_, _)
OutputLines(outs, n) ==
    IF n = 0 THEN 0
    ELSE OutputLines(outs, n - 1) + Len(SplitLines(outs[n]))

\* The lines of the report that make up the section of command i.
SectionAt(i) ==
    LET first == 5 * (i - 1) + OutputLines(stdouts, i - 1) + 1
        last == 5 * i + OutputLines(stdouts, i)
    IN  SubSeq(cmd_output, first, last)

(* ------------------------------- claims --------------------------------- *)

\* C1: a configuration file that exists and holds only blank or whitespace
\* lines makes the run end with exit code 2 (ConfigEmpty); no command is
\* executed and send_email is not called.
C1_BlankConfigFailsEmpty ==
    (config_file_present /\ AllBlank(file_content)) =>
        /\ started = <<>>
        /\ send_calls = 0
        /\ pc # "crashed"
        /\ (pc = "done" => exit_code = RESULT_ERROR_CONFIG_FILE_EMPTY)

\* C2: when the connect or the send raises, send_email catches the
\* exception and returns False, no exception leaves the process, and main
\* returns exit code 3 (CannotSendEmail).
C2_SendFailureYieldsExit3 ==
    smtp_error # "none" =>
        /\ exception = "none"
        /\ pc # "crashed"
        /\ email_result = FALSE
        /\ (pc = "done" => exit_code = RESULT_ERROR_CANNOT_SEND_EMAIL)

\* C3: when the process of a command cannot be launched,
\* run_command_with_output_capture raises nothing and returns an empty list
\* of lines, so the report builder goes on.
C3_LaunchFailureSwallowed ==
    ~proc_ran_okay =>
        /\ exception = "none"
        /\ pc # "crashed"
        /\ (pc = "append_output" => current_cmd_output = <<>>)

\* C4: with a configuration path that names no file the run ends with exit
\* code 1 and the file is never opened, no command runs, no report is built
\* and send_email is never called; and once result is not RESULT_OK no step
\* changes the file, the command list, the report, the children or the mail
\* state, nor result itself.
C4_MissingConfigShortCircuits ==
    /\ [](~config_file_present =>
            /\ ~file_open
            /\ cmd_lines = <<>>
            /\ started = <<>>
            /\ alive = {}
            /\ cmd_output = <<>>
            /\ send_calls = 0
            /\ smtp = "unbound"
            /\ pc # "crashed"
            /\ (LoaderDone => result = RESULT_ERROR_CONFIG_FILE_NOT_PRESENT)
            /\ (pc = "done" =>
                    exit_code = RESULT_ERROR_CONFIG_FILE_NOT_PRESENT))
    /\ [][result # RESULT_OK =>
            UNCHANGED <<result, file_open, cmd_lines, cmd_output, idx,
                        runVars, mailVars>>]_vars

C4_Witness ==
    /\ pc = "done"
    /\ ~config_file_present
    /\ exit_code = RESULT_ERROR_CONFIG_FILE_NOT_PRESENT

\* C5: for a configuration file with at least one non-blank line the loader
\* does not fail and the command list is the file's lines, trimmed, without
\* the lines that are empty after trimming, in file order.
C5_LoaderReturnsTrimmedLines ==
    (config_file_present /\ ~AllBlank(file_content) /\ LoaderDone) =>
        /\ cmd_lines = TrimmedNonBlankLines(file_content)
        /\ \A i \in 1..Len(cmd_lines) : cmd_lines[i] # <<>>
        /\ result \notin {RESULT_ERROR_CONFIG_FILE_NOT_PRESENT,
                          RESULT_ERROR_CONFIG_FILE_EMPTY}

C5_Witness ==
    /\ pc = "run_commands"
    /\ Len(cmd_lines) = 2
    /\ cmd_lines[1] # cmd_lines[2]
    /\ result = RESULT_OK

\* C6: the report is the concatenation, in command list order, of one
\* section per command (banner, 'Command: <cmd>', separator, the stdout
\* lines of the command, banner, empty line), so it has 5*n lines plus the
\* output lines; this holds after every finished iteration of the loop and
\* when the loop is over.
C6_ReportIsSectionsInOrder ==
    /\ (pc = "loop_head" \/ ReportBuilt) =>
          /\ cmd_output = ReportOf(cmd_lines, stdouts, idx)
          /\ Len(cmd_output) = 5 * idx + OutputLines(stdouts, idx)
    /\ (ReportBuilt /\ result = RESULT_OK) => idx = Len(cmd_lines)

C6_Witness ==
    /\ pc = "send_check"
    /\ idx = 2
    /\ cmd_lines[1] # cmd_lines[2]
    /\ Len(SplitLines(stdouts[1])) = 2
    /\ Len(cmd_output) = 12

C8_ConnectionAlwaysClosed ==
    (send_calls > 0 /\ Terminated) =>
        /\ smtp # "open"
        /\ exception = "none"

\* C9: whenever the command list is not empty, the report is not empty and
\* send_email is called exactly once; sending is skipped, with exit code 0,
\* only when the report is empty.
C9_NonEmptyListSendsOnce ==
    /\ (Terminated /\ cmd_lines # <<>>) =>
          /\ cmd_output # <<>>
          /\ send_calls = 1
    /\ (pc = "done" /\ exit_code = RESULT_OK /\ send_calls = 0) =>
          cmd_output = <<>>

\* C10: the effectful steps of a run are ordered and do not overlap: the
\* configuration file is closed before the first command starts; commands
\* start in command list order; a command is started only when no child is
\* alive, so at most one child is alive; send_email is entered only after
\* the last command has ended, and at most once.
C10_StepsStrictlyOrdered ==
    /\ (started # <<>> \/ alive # {}) => ~file_open
    /\ Cardinality(alive) <= 1
    /\ alive \subseteq {Len(started)}
    /\ pc = "popen" => alive = {}
    /\ Len(returncodes) + Cardinality(alive) = Len(started)
    /\ started # <<>> => started = SubSeq(cmd_lines, 1, Len(started))
    /\ (send_calls > 0 \/ smtp # "unbound") =>
          /\ alive = {}
          /\ Len(started) = Len(cmd_lines)
          /\ Len(returncodes) = Len(cmd_lines)
    /\ send_calls <= 1

C10_Witness ==
    /\ smtp = "open"
    /\ Len(started) = 2
    /\ started[1] # started[2]
    /\ Len(returncodes) = 2
====
